---------------------------- MODULE Spec2Model ----------------------------
(***************************************************************************)
(* Model of app/main.py: one FastAPI application object, one route         *)
(* (GET "/") whose endpoint read_root returns a two-key dict holding a     *)
(* constant message and the value of socket.gethostname().                 *)
(*                                                                         *)
(* A request travels through four positions on its connection:             *)
(*   idle -> accepted -> (in_handler -> returned ->) done -> idle          *)
(* Requests that the router does not hand to read_root go from accepted    *)
(* straight to done.  The operating environment's host name is state of    *)
(* the model: read_root reads it afresh on every call (main.py line 14).   *)
(*                                                                         *)
(* A path is the sequence of its pieces, "/" being a piece of its own:     *)
(*   "/"       is <<"/">>            "/docs/" is <<"/", "docs", "/">>      *)
(***************************************************************************)
EXTENDS Naturals, Sequences, FiniteSets

\* ------------------------------------------------------------------ bounds
NumConns == 2      \* connections served at the same time
MaxRenames == 1    \* times the environment's host name is changed

Conns == 1..NumConns

\* ------------------------------------------------------ environment inputs
\* Host names the operating environment may report ("" is a host name the
\* kernel accepts: sethostname(2) with length 0).
Hostnames == {"", "web-1", "web-2"}

RootPath == <<"/">>

\* The request lines the clients send.
Requests ==
    { [method |-> "GET", path |-> RootPath],
      [method |-> "POST", path |-> RootPath],
      [method |-> "HEAD", path |-> RootPath],
      [method |-> "GET", path |-> <<"/", "nonexistent">>],
      [method |-> "GET", path |-> <<"/", "docs">>],
      [method |-> "POST", path |-> <<"/", "docs">>],
      [method |-> "GET", path |-> <<"/", "docs", "/">>] }

VARIABLES
    routes,      \* app.router.routes: the route table of the application object
    hostname,    \* the host name the operating environment reports
    renames,     \* how many times the environment changed the host name
    crashed,     \* TRUE once the service process has died
    pc,          \* pc[c]: position of the request on connection c
    req,         \* req[c]: the request line, [method, path]
    lookup,      \* lookup[c]: outcome of the call of socket.gethostname()
    ret,         \* ret[c]: outcome of the call of read_root
    resp         \* resp[c]: the response sent

vars == <<routes, hostname, renames, crashed, pc, req, lookup, ret, resp>>

\* --------------------------------------------------------- the application
\* Routes FastAPI() registers in its constructor with default arguments
\* (openapi_url, docs_url, swagger_ui_oauth2_redirect_url, redoc_url): plain
\* function routes, which answer GET and HEAD.
DefaultRoutes ==
    << [path |-> <<"/", "openapi.json">>, methods |-> {"GET", "HEAD"}, endpoint |-> "openapi"],
       [path |-> <<"/", "docs">>, methods |-> {"GET", "HEAD"}, endpoint |-> "swagger_ui_html"],
       [path |-> <<"/", "docs", "/", "oauth2-redirect">>, methods |-> {"GET", "HEAD"},
        endpoint |-> "swagger_ui_redirect"],
       [path |-> <<"/", "redoc">>, methods |-> {"GET", "HEAD"}, endpoint |-> "redoc_html"] >>

\* A route on "/" registered for every method instead of GET alone.
RootRouteAnyMethod ==
    [path |-> RootPath, methods |-> {"GET", "POST", "HEAD"}, endpoint |-> "read_root"]

\* @app.get("/") appends one route, for GET alone, whose endpoint is read_root.
RootRoute == [path |-> RootPath, methods |-> {"GET"}, endpoint |-> "read_root"]

\* The route table once the module has been imported.
AppRoutes == Append(DefaultRoutes, RootRoute)

NoRequest == [method |-> "", path |-> <<>>]
NoLookup == [state |-> "none"]
NoReturn == [kind |-> "none"]
NoResponse == [status |-> 0]

\* ----------------------------------------------------------------- routing
\* How a route matches a request: "full" (path and method), "partial" (the
\* path alone) or "none".
Matches(route, m, p) ==
    IF route.path # p THEN "none"
    ELSE IF m \in route.methods THEN "full"
    ELSE "partial"

\* Indices of the routes of rs matching (m, p) in the way `how`.
Matching(rs, m, p, how) == { i \in 1..Len(rs) : Matches(rs[i], m, p) = how }

Min(S) == CHOOSE i \in S : \A j \in S : i <= j

\* str.rstrip("/"): drop every trailing "/" piece.
RECURSIVE RStripSlash(_)
RStripSlash(p) ==
    IF p # <<>> /\ p[Len(p)] = "/" THEN RStripSlash(SubSeq(p, 1, Len(p) - 1))
    ELSE p

\* The path the router tries when nothing matched: the same path with the
\* trailing slash removed or added.
RedirectPath(p) ==
    IF p[Len(p)] = "/" THEN RStripSlash(p) ELSE Append(p, "/")

\* A router whose fallback is read_root: a GET that no route matches is
\* handed to the handler instead of being refused.
RouteCatchAll(rs, m, p) ==
    IF Matching(rs, m, p, "full") # {}
      THEN [kind |-> "endpoint", endpoint |-> rs[Min(Matching(rs, m, p, "full"))].endpoint]
    ELSE IF Matching(rs, m, p, "partial") # {}
      THEN [kind |-> "method_not_allowed"]
    ELSE IF m = "GET"
      THEN [kind |-> "endpoint", endpoint |-> "read_root"]
    ELSE [kind |-> "not_found"]

\* The router's decision for a request: the first route matching in full
\* handles it; failing that the first route matching the path alone refuses
\* the method; failing that, for a path other than "/", a route matching the
\* path with the trailing slash toggled redirects; otherwise not found.
Route(rs, m, p) ==
    IF Matching(rs, m, p, "full") # {}
      THEN [kind |-> "endpoint", endpoint |-> rs[Min(Matching(rs, m, p, "full"))].endpoint]
    ELSE IF Matching(rs, m, p, "partial") # {}
      THEN [kind |-> "method_not_allowed"]
    ELSE IF p # RootPath /\ \E i \in 1..Len(rs) : Matches(rs[i], m, RedirectPath(p)) # "none"
      THEN [kind |-> "redirect"]
    ELSE [kind |-> "not_found"]

\* --------------------------------------------------------------- responses
JsonResponse(code, content) ==
    [status |-> code, media_type |-> "application/json", body |-> content]

NotFound == JsonResponse(404, [detail |-> "Not Found"])
MethodNotAllowed == JsonResponse(405, [detail |-> "Method Not Allowed"])
TemporaryRedirect(p) == [status |-> 307, media_type |-> "", location |-> RedirectPath(p)]
InternalServerError ==
    [status |-> 500, media_type |-> "text/plain", body |-> [text |-> "Internal Server Error"]]

\* The documentation endpoints answer 200; their bodies are kept as the name
\* of the endpoint that produced them.
DocsResponse(endpoint) ==
    [status |-> 200,
     media_type |-> IF endpoint = "openapi" THEN "application/json" ELSE "text/html",
     body |-> [document |-> endpoint]]

\* ----------------------------------------------------------------- handler
\* A dict with a third key.
ResponseBodyExtraKey(h) ==
    [message |-> "Hello from FastAPI", hostname |-> h, container |-> h]

\* A dict whose host name is a literal instead of the value looked up.
ResponseBodyLiteralHost(h) ==
    [message |-> "Hello from FastAPI", hostname |-> "localhost"]

\* The dict read_root builds from the host name h.
ResponseBody(h) == [message |-> "Hello from FastAPI", hostname |-> h]

\* A lookup whose answer varies from call to call under one host name, as a
\* name resolved through a resolver would.
GetHostnameUnstable ==
    { [state |-> "ok", name |-> h, at |-> renames] : h \in Hostnames }
       \cup { [state |-> "error"] }

\* socket.gethostname(): the environment's host name, or OSError.
GetHostname ==
    { [state |-> "ok", name |-> hostname, at |-> renames], [state |-> "error"] }

\* What the call of read_root ends with, given the outcome of its lookup:
\* the dict, or the lookup's exception, which read_root does not catch.
ReadRootResult(outcome) ==
    IF outcome.state = "ok"
      THEN [kind |-> "return", value |-> ResponseBody(outcome.name)]
      ELSE [kind |-> "raise", exc |-> "OSError"]

\* ------------------------------------------------------------------ actions
Init ==
    /\ routes = AppRoutes
    /\ hostname \in Hostnames
    /\ renames = 0
    /\ crashed = FALSE
    /\ pc = [c \in Conns |-> "idle"]
    /\ req = [c \in Conns |-> NoRequest]
    /\ lookup = [c \in Conns |-> NoLookup]
    /\ ret = [c \in Conns |-> NoReturn]
    /\ resp = [c \in Conns |-> NoResponse]

\* The server accepts a request on an idle connection.
Accept(c) ==
    /\ ~crashed
    /\ pc[c] = "idle"
    /\ \E r \in Requests : req' = [req EXCEPT ![c] = r]
    /\ pc' = [pc EXCEPT ![c] = "accepted"]
    /\ UNCHANGED <<routes, hostname, renames, crashed, lookup, ret, resp>>

\* A dispatch in which a request that is refused takes the process down.
DispatchFatal(c) ==
    /\ ~crashed
    /\ pc[c] = "accepted"
    /\ LET d == Route(routes, req[c].method, req[c].path) IN
         IF d.kind = "endpoint" /\ d.endpoint = "read_root"
           THEN /\ pc' = [pc EXCEPT ![c] = "in_handler"]
                /\ resp' = resp
                /\ crashed' = crashed
           ELSE /\ pc' = [pc EXCEPT ![c] = "done"]
                /\ resp' = [resp EXCEPT ![c] =
                      IF d.kind = "endpoint" THEN DocsResponse(d.endpoint)
                      ELSE IF d.kind = "method_not_allowed" THEN MethodNotAllowed
                      ELSE IF d.kind = "redirect" THEN TemporaryRedirect(req[c].path)
                      ELSE NotFound]
                /\ crashed' = (d.kind \in {"method_not_allowed", "not_found"})
    /\ UNCHANGED <<routes, hostname, renames, req, lookup, ret>>

\* The application routes an accepted request: to read_root, which then runs
\* on a worker thread, or to a response the framework produces itself.
Dispatch(c) ==
    /\ ~crashed
    /\ pc[c] = "accepted"
    /\ LET d == Route(routes, req[c].method, req[c].path) IN
         IF d.kind = "endpoint" /\ d.endpoint = "read_root"
           THEN /\ pc' = [pc EXCEPT ![c] = "in_handler"]
                /\ resp' = resp
           ELSE /\ pc' = [pc EXCEPT ![c] = "done"]
                /\ resp' = [resp EXCEPT ![c] =
                      IF d.kind = "endpoint" THEN DocsResponse(d.endpoint)
                      ELSE IF d.kind = "method_not_allowed" THEN MethodNotAllowed
                      ELSE IF d.kind = "redirect" THEN TemporaryRedirect(req[c].path)
                      ELSE NotFound]
    /\ UNCHANGED <<routes, hostname, renames, crashed, req, lookup, ret>>

\* A handler that registers its route again each time it runs.
read_root_registers(c) ==
    /\ ~crashed
    /\ pc[c] = "in_handler"
    /\ \E outcome \in GetHostname :
          /\ lookup' = [lookup EXCEPT ![c] = outcome]
          /\ ret' = [ret EXCEPT ![c] = ReadRootResult(outcome)]
    /\ pc' = [pc EXCEPT ![c] = "returned"]
    /\ routes' = IF Len(routes) < Len(AppRoutes) + 1 THEN Append(routes, RootRoute) ELSE routes
    /\ UNCHANGED <<hostname, renames, crashed, req, resp>>

\* The body of read_root: one lookup of the host name, one dict.
read_root(c) ==
    /\ ~crashed
    /\ pc[c] = "in_handler"
    /\ \E outcome \in GetHostname :
          /\ lookup' = [lookup EXCEPT ![c] = outcome]
          /\ ret' = [ret EXCEPT ![c] = ReadRootResult(outcome)]
    /\ pc' = [pc EXCEPT ![c] = "returned"]
    /\ UNCHANGED <<routes, hostname, renames, crashed, req, resp>>

\* A response that depends on the other connections: the request is refused
\* while another one is in its handler.
RespondBusy(c) ==
    /\ ~crashed
    /\ pc[c] = "returned"
    /\ resp' = [resp EXCEPT ![c] =
          IF \E d \in Conns \ {c} : pc[d] \in {"in_handler", "returned"}
            THEN InternalServerError
          ELSE IF ret[c].kind = "return" THEN JsonResponse(200, ret[c].value)
          ELSE InternalServerError]
    /\ pc' = [pc EXCEPT ![c] = "done"]
    /\ UNCHANGED <<routes, hostname, renames, crashed, req, lookup, ret>>

\* An exception of the handler that ends the process.
RespondCrash(c) ==
    /\ ~crashed
    /\ pc[c] = "returned"
    /\ resp' = [resp EXCEPT ![c] =
          IF ret[c].kind = "return" THEN JsonResponse(200, ret[c].value)
          ELSE InternalServerError]
    /\ crashed' = (ret[c].kind = "raise")
    /\ pc' = [pc EXCEPT ![c] = "done"]
    /\ UNCHANGED <<routes, hostname, renames, req, lookup, ret>>

\* An exception of the handler that is swallowed: nothing is ever sent.
RespondHang(c) ==
    /\ ~crashed
    /\ pc[c] = "returned"
    /\ ret[c].kind = "return"
    /\ resp' = [resp EXCEPT ![c] = JsonResponse(200, ret[c].value)]
    /\ pc' = [pc EXCEPT ![c] = "done"]
    /\ UNCHANGED <<routes, hostname, renames, crashed, req, lookup, ret>>

\* The application turns the outcome of read_root into the response: the
\* returned dict is sent as JSON with status 200; an exception is answered
\* with the generic 500 response and logged, and the process goes on.
Respond(c) ==
    /\ ~crashed
    /\ pc[c] = "returned"
    /\ resp' = [resp EXCEPT ![c] =
          IF ret[c].kind = "return" THEN JsonResponse(200, ret[c].value)
          ELSE InternalServerError]
    /\ pc' = [pc EXCEPT ![c] = "done"]
    /\ UNCHANGED <<routes, hostname, renames, crashed, req, lookup, ret>>

\* The client has read the response; the connection serves the next request.
Close(c) ==
    /\ pc[c] = "done"
    /\ pc' = [pc EXCEPT ![c] = "idle"]
    /\ req' = [req EXCEPT ![c] = NoRequest]
    /\ lookup' = [lookup EXCEPT ![c] = NoLookup]
    /\ ret' = [ret EXCEPT ![c] = NoReturn]
    /\ resp' = [resp EXCEPT ![c] = NoResponse]
    /\ UNCHANGED <<routes, hostname, renames, crashed>>

\* The environment changes the host name while the process runs.
SetHostname(h) ==
    /\ renames < MaxRenames
    /\ h # hostname
    /\ hostname' = h
    /\ renames' = renames + 1
    /\ UNCHANGED <<routes, crashed, pc, req, lookup, ret, resp>>

Next ==
    \/ \E c \in Conns : Accept(c)
    \/ \E c \in Conns : Dispatch(c)
    \/ \E c \in Conns : read_root(c)
    \/ \E c \in Conns : Respond(c)
    \/ \E c \in Conns : Close(c)
    \/ \E h \in Hostnames : SetHostname(h)

Spec == Init /\ [][Next]_vars

\* The next step of the request on connection c, whichever it is.
Serve(c) == Dispatch(c) \/ read_root(c) \/ Respond(c)

\* The server's event loop and worker threads are scheduled fairly: a request
\* that can take its next step eventually takes it.
FairSpec == Spec /\ \A c \in Conns : WF_vars(Serve(c))

\* ------------------------------------------------------------- properties
Done(c) == pc[c] = "done"
RootGet(c) == req[c].method = "GET" /\ req[c].path = RootPath
Ok200(c) == Done(c) /\ RootGet(c) /\ resp[c].status = 200
ErrorStatuses == {404, 405, 500}
InFlight(c) == pc[c] \in {"accepted", "in_handler", "returned"}

\* Paths of the documentation routes the constructor registers.
DocPaths == { DefaultRoutes[i].path : i \in 1..Len(DefaultRoutes) }

\* C1: every GET / whose host-name lookup succeeded is answered with status
\* 200 and a JSON object with exactly the keys message and hostname, message
\* being "Hello from FastAPI".
C1_RootShape ==
    \A c \in Conns :
       Done(c) /\ RootGet(c) /\ lookup[c].state = "ok" =>
          /\ resp[c].status = 200
          /\ resp[c].media_type = "application/json"
          /\ DOMAIN resp[c].body = {"message", "hostname"}
          /\ resp[c].body.message = "Hello from FastAPI"

C1_Witness ==
    \E c \in Conns : Done(c) /\ RootGet(c) /\ lookup[c].state = "ok"

\* C2 as stated: the hostname field of every successful GET / response is
\* non-empty and equal to the host name the environment reported.
C2_HostnameNonEmpty ==
    \A c \in Conns :
       Ok200(c) =>
          /\ resp[c].body.hostname # ""
          /\ resp[c].body.hostname = lookup[c].name

\* C2 as amended: the hostname field of every successful GET / response is
\* the string the lookup of that request returned, unchanged, which is the
\* environment's host name as long as that has not been changed since; it is
\* empty when the environment's host name is empty.
C2_HostnameAsReported ==
    \A c \in Conns :
       Ok200(c) =>
          /\ resp[c].body.hostname = lookup[c].name
          /\ (lookup[c].at = renames => resp[c].body.hostname = hostname)

C2_Witness ==
    \E c \in Conns : Ok200(c) /\ lookup[c].at = renames /\ resp[c].body.hostname = "web-1"

\* C3 as stated: any two GET / requests answered with 200 by the running
\* process carry equal hostname fields.
C3_HostnameStable ==
    \A c, d \in Conns :
       Ok200(c) /\ Ok200(d) => resp[c].body.hostname = resp[d].body.hostname

\* C3 as amended: two GET / requests answered with 200 carry equal hostname
\* fields when the environment's host name was not changed between their
\* lookups.
C3_StableBetweenRenames ==
    \A c, d \in Conns :
       Ok200(c) /\ Ok200(d) /\ lookup[c].at = lookup[d].at =>
          resp[c].body.hostname = resp[d].body.hostname

C3_Witness ==
    \E c, d \in Conns : c # d /\ Ok200(c) /\ Ok200(d) /\ lookup[c].at = lookup[d].at

\* The dict a GET / request in or past its handler carries.
Carried(c) == IF Done(c) THEN resp[c].body ELSE ret[c].value

\* C4 as stated: all GET / requests served side by side are answered with
\* 200 and carry identical message and hostname values.
C4_ConcurrentAllSucceed ==
    \A c, d \in Conns :
       Done(c) /\ RootGet(c) /\ Done(d) /\ RootGet(d) =>
          /\ resp[c].status = 200
          /\ resp[c] = resp[d]

\* C4 as amended: GET / requests served side by side whose lookups succeeded
\* under one host name are all answered with 200 and carry identical message
\* and hostname values, whichever other requests are in flight and in
\* whatever order they are served.
C4_ConcurrentIdentical ==
    \A c, d \in Conns :
       /\ pc[c] \in {"returned", "done"} /\ pc[d] \in {"returned", "done"}
       /\ RootGet(c) /\ RootGet(d)
       /\ lookup[c].state = "ok" /\ lookup[d].state = "ok"
       /\ lookup[c].at = lookup[d].at
       => /\ Carried(c) = Carried(d)
          /\ (Done(c) => resp[c].status = 200)

C4_Witness ==
    \E c, d \in Conns :
       /\ c # d
       /\ pc[c] = "returned" /\ Ok200(d)
       /\ RootGet(c) /\ lookup[c].state = "ok" /\ lookup[c].at = lookup[d].at

\* C5: a GET / whose host-name lookup failed is always answered with the
\* same generic 500 response, the process is still running and idle
\* connections still accept requests.
C5_LookupFailureIs500 ==
    \A c \in Conns :
       Done(c) /\ lookup[c].state = "error" =>
          /\ resp[c] = InternalServerError
          /\ ~crashed
          /\ \A d \in Conns : pc[d] = "idle" => ENABLED Accept(d)

C5_Witness ==
    \E c, d \in Conns :
       Done(c) /\ lookup[c].state = "error" /\ resp[c].status = 500 /\ pc[d] = "idle"

\* The response a request gets, computed from the request and its own
\* lookup alone.
Expected(r, l) ==
    LET d == Route(AppRoutes, r.method, r.path) IN
      IF d.kind = "endpoint" /\ d.endpoint = "read_root"
        THEN IF l.state = "ok" THEN JsonResponse(200, ResponseBody(l.name))
             ELSE InternalServerError
      ELSE IF d.kind = "endpoint" THEN DocsResponse(d.endpoint)
      ELSE IF d.kind = "method_not_allowed" THEN MethodNotAllowed
      ELSE IF d.kind = "redirect" THEN TemporaryRedirect(r.path)
      ELSE NotFound

\* C6: the step in which a request fails (404, 405 or 500) changes nothing
\* of any other connection and nothing the other requests read (route table,
\* host name, the process being alive), and every response is the one that
\* follows from its own request and lookup.
C6_ErrorsContained ==
    /\ [](\A c \in Conns : Done(c) => resp[c] = Expected(req[c], lookup[c]))
    /\ [][\A c \in Conns :
            (~Done(c) /\ Done(c)' /\ resp'[c].status \in ErrorStatuses) =>
               /\ ~crashed'
               /\ routes' = routes
               /\ hostname' = hostname
               /\ \A d \in Conns \ {c} :
                     /\ pc'[d] = pc[d] /\ req'[d] = req[d]
                     /\ lookup'[d] = lookup[d] /\ ret'[d] = ret[d]
                     /\ resp'[d] = resp[d]]_vars

C6_Witness ==
    \E c, d \in Conns :
       /\ c # d
       /\ Done(c) /\ resp[c].status \in ErrorStatuses
       /\ InFlight(d)

C9_OtherMethodOnRoot ==
    /\ \A i \in 1..Len(routes) : routes[i].path = RootPath => routes[i].methods = {"GET"}
    /\ \A c \in Conns :
          Done(c) /\ req[c].path = RootPath /\ req[c].method # "GET" =>
             /\ resp[c] = MethodNotAllowed
             /\ ret[c] = NoReturn

C9_Witness ==
    \E c \in Conns :
       Done(c) /\ req[c].path = RootPath /\ req[c].method = "POST" /\ resp[c].status = 405

\* C10: no step of a request changes the route table, the environment's
\* host name or the process being alive, and a connection that is idle again
\* holds nothing of the request it served.
C10_NoSideEffects ==
    /\ [](\A c \in Conns :
            pc[c] = "idle" =>
               /\ req[c] = NoRequest /\ lookup[c] = NoLookup
               /\ ret[c] = NoReturn /\ resp[c] = NoResponse)
    /\ [][(\E c \in Conns : pc'[c] # pc[c]) =>
            /\ routes' = routes
            /\ hostname' = hostname
            /\ renames' = renames
            /\ crashed' = crashed]_vars

C10_Witness ==
    \E c, d \in Conns :
       /\ Ok200(c)
       /\ pc[d] = "idle"
       /\ routes = AppRoutes

=============================================================================
